---- MODULE Spec2Model ----
(***************************************************************************)
(* A model of nest::inhomogeneous_poisson_generator                        *)
(* (models/inhomogeneous_poisson_generator.cpp): the rate schedule held in *)
(* Parameters_ (rate_times_, rate_values_, allow_offgrid_times_), the       *)
(* runtime buffer Buffers_ (idx_, rate_), the configuration entry points   *)
(* Parameters_::set and set_data_from_stimulation_backend, and the         *)
(* stepping functions update and event_hook.                               *)
(*                                                                         *)
(* Units.  A raw time (a double, in ms) is represented by the number of    *)
(* tics it denotes; TicsPerStep tics make one simulation step.  A rate (a  *)
(* double, in spikes/s) is an integer multiple of 1000, so that the        *)
(* conversion rate / 1000.0 of update is computed exactly.                 *)
(***************************************************************************)
EXTENDS Integers, Sequences, FiniteSets, TLC

\* Resolution of the time grid: tics per simulation step.
TicsPerStep == 2

\* Largest raw time (in tics) offered to a configuration call.
MaxTic == 5

\* Longest times / rates array offered to set.
MaxLen == 2

\* Largest number of (time, rate) pairs offered to the stimulation backend.
MaxPairs == 1

\* The simulation clock is not advanced beyond this step.
MaxNow == 2

\* Largest value returned by one Poisson draw.
MaxDraw == 1

\* The kernel's min_delay: the number of steps of one update slice.
MinDelay == 2

\* Rates (spikes/s) offered to the configuration calls.
Rates == {-1000, 1000}

RawTimes == 1 .. MaxTic

RECURSIVE SeqsUpTo(_, _)
SeqsUpTo(S, n) ==
  IF n = 0 THEN {<<>>}
  ELSE LET shorter == SeqsUpTo(S, n - 1)
       IN  shorter \cup {Append(s, x) : s \in {q \in shorter : Len(q) = n - 1}, x \in S}

TimeArrays == SeqsUpTo(RawTimes, MaxLen)
RateArrays == SeqsUpTo(Rates, MaxLen)

(***************************************************************************)
(* class Time, as far as the generator uses it.                            *)
(***************************************************************************)
\* Time::ms( t ): the time stamp of a raw time.
Time_ms(t) == [tics |-> t]

\* Time::step( s )
Time_step(s) == [tics |-> s * TicsPerStep]

\* Time::is_grid_time()
is_grid_time(T) == T.tics % TicsPerStep = 0

\* Time::ms_stamp( t ): the end of the step in which t lies.
Time_ms_stamp(t) == [tics |-> ((t + TicsPerStep - 1) \div TicsPerStep) * TicsPerStep]

\* Time::get_steps()
get_steps(T) == T.tics \div TicsPerStep

\* Time::get_ms()
get_ms(T) == T.tics

(***************************************************************************)
(* Parameters_                                                             *)
(***************************************************************************)
\* Parameters_::Parameters_()
Parameters_default ==
  [rate_times |-> <<>>, rate_values |-> <<>>, allow_offgrid_times |-> FALSE]

\* The first test of assert_valid_rate_time_and_insert, with < for <=.
not_in_future_lt(t, now_ms) == t < now_ms

\* The first test of assert_valid_rate_time_and_insert: t does not lie
\* strictly in the future.
not_in_future(t, now_ms) == t <= now_ms

\* assert_valid_rate_time_and_insert that inserts an off-grid time as it is.
assert_valid_rate_time_and_insert_unrounded(p, t, now_ms) ==
  IF not_in_future(t, now_ms)
  THEN [err |-> "NotInFuture", P |-> p]
  ELSE LET t_rate == Time_ms(t) IN
       IF ~ is_grid_time(t_rate) /\ ~ p.allow_offgrid_times
       THEN [err |-> "NotGridAligned", P |-> p]
       ELSE [err |-> "none", P |-> [p EXCEPT !.rate_times = Append(@, t_rate)]]

\* assert_valid_rate_time_and_insert( t ): the error thrown ("none" if none)
\* and the parameters as the call leaves them.
assert_valid_rate_time_and_insert(p, t, now_ms) ==
  IF not_in_future(t, now_ms)
  THEN [err |-> "NotInFuture", P |-> p]
  ELSE LET t_rate == Time_ms(t) IN
       IF ~ is_grid_time(t_rate)
       THEN IF p.allow_offgrid_times
            THEN [err |-> "none",
                  P |-> [p EXCEPT !.rate_times = Append(@, Time_ms_stamp(t))]]
            ELSE [err |-> "NotGridAligned", P |-> p]
       ELSE [err |-> "none", P |-> [p EXCEPT !.rate_times = Append(@, t_rate)]]

\* The comparison of the loop of Parameters_::set, with > for >=.
not_increasing_gt(prev_rate, back) == prev_rate.tics > back.tics

\* The comparison of the loop of Parameters_::set: the aligned rate time back
\* is not later than its predecessor.
not_increasing(prev_rate, back) == prev_rate.tics >= back.tics

\* The loop of Parameters_::set over the remaining rate times; next is the
\* index of the element to insert, prev_rate is at index next - 1.
RECURSIVE insert_remaining(_, _, _, _)
insert_remaining(p, d_times, next, now_ms) ==
  IF next > Len(d_times)
  THEN [err |-> "none", P |-> p]
  ELSE LET r == assert_valid_rate_time_and_insert(p, d_times[next], now_ms) IN
       IF r.err # "none"
       THEN r
       ELSE LET ts == r.P.rate_times IN
            IF not_increasing(ts[next - 1], ts[Len(ts)])
            THEN [err |-> "NonMonotonic", P |-> r.P]
            ELSE insert_remaining(r.P, d_times, next + 1, now_ms)

\* A dictionary handed to set: each of the three entries may be absent.
Dict(has_times, times, has_rates, rates, has_flag, flag) ==
  [has_times |-> has_times, times |-> times,
   has_rates |-> has_rates, rates |-> rates,
   has_flag |-> has_flag, flag |-> flag]

\* The rate index reset by set whether or not a rate time was rejected.
rate_index_reset_always(err, idx) == 0

\* The rate index left alone by set when it got new data.
rate_index_reset_never(err, idx) == idx

\* b.idx_ after the loop of Parameters_::set: the last statement of set
\* resets it, and is reached only if no rate time was rejected.
rate_index_reset(err, idx) == IF err = "none" THEN 0 ELSE idx

\* The test of Parameters_::set for times and rates given together, which
\* lets rates pass without times.
asymmetric_update_times_only(times, rates) == times /\ ~ rates

\* The test of Parameters_::set for times and rates given together: times xor
\* rates.
asymmetric_update(times, rates) == times # rates

\* Parameters_::set( d, b, node ) called on the object p with b.idx_ = idx:
\* the error thrown ("none" if none), the object and b.idx_ as the call
\* leaves them.
Parameters_set(p, idx, d, now_ms) ==
  LET times == d.has_times
      rates == d.has_rates
      p1 == IF rates THEN [p EXCEPT !.rate_values = d.rates] ELSE p
      locked == /\ d.has_flag
                /\ d.flag # p1.allow_offgrid_times
                /\ ~ (times \/ p1.rate_times = <<>>)
      p2 == IF d.has_flag THEN [p1 EXCEPT !.allow_offgrid_times = d.flag] ELSE p1
  IN
  IF locked THEN [err |-> "OffGridFlagLocked", P |-> p1, idx |-> idx]
  ELSE IF asymmetric_update(times, rates)
       THEN [err |-> "AsymmetricUpdate", P |-> p2, idx |-> idx]
  ELSE IF ~ (times \/ rates) THEN [err |-> "none", P |-> p2, idx |-> idx]
  ELSE IF d.times = <<>> THEN [err |-> "none", P |-> p2, idx |-> idx]
  ELSE IF Len(d.times) # Len(p2.rate_values)
       THEN [err |-> "SizeMismatch", P |-> p2, idx |-> idx]
  ELSE LET p3 == [p2 EXCEPT !.rate_times = <<>>]
           first == assert_valid_rate_time_and_insert(p3, d.times[1], now_ms)
           all == IF first.err # "none" THEN first
                  ELSE insert_remaining(first.P, d.times, 2, now_ms)
       IN  [err |-> all.err, P |-> all.P, idx |-> rate_index_reset(all.err, idx)]


(***************************************************************************)
(* update and event_hook                                                   *)
(***************************************************************************)
\* The catch-up loop of update with < for <=: a breakpoint at the first step
\* of the block is not skipped.
RECURSIVE skip_past_lt(_, _, _)
skip_past_lt(p, idx, first) ==
  IF idx < Len(p.rate_times) /\ get_steps(p.rate_times[idx + 1]) < first
  THEN skip_past_lt(p, idx + 1, first)
  ELSE idx

\* The catch-up loop of update: skip any times in the past.
RECURSIVE skip_past(_, _, _)
skip_past(p, idx, first) ==
  IF idx < Len(p.rate_times) /\ get_steps(p.rate_times[idx + 1]) <= first
  THEN skip_past(p, idx + 1, first)
  ELSE idx

\* P_.rate_values_[ idx ]: an index beyond the vector reads whatever lies there.
read_rate_value(p, idx, junk) ==
  IF idx + 1 <= Len(p.rate_values) THEN p.rate_values[idx + 1] ELSE junk

\* The condition of update without the look-ahead: the rate changes at the
\* step of the breakpoint.
rate_changes_on_time(p, idx, curr_time) ==
  /\ idx < Len(p.rate_times)
  /\ curr_time = get_steps(p.rate_times[idx + 1])

\* The look-ahead condition of update at the step curr_time.
rate_changes(p, idx, curr_time) ==
  /\ idx < Len(p.rate_times)
  /\ curr_time + 1 = get_steps(p.rate_times[idx + 1])

\* The condition of update, with >= for >.
create_spikes_ge(rate, is_active) == rate >= 0 /\ is_active

\* The condition of update under which a DSSpikeEvent is sent.
create_spikes(rate, is_active) == rate > 0 /\ is_active

\* The mean of event_hook without the step duration.
poisson_mean_per_ms(rate) == rate

\* The mean handed to the Poisson distribution by event_hook: B_.rate_ * V_.h_,
\* with the step duration V_.h_ in tics.
poisson_mean(rate) == rate * TicsPerStep

\* event_hook that hands every event to the receiver.
event_hook_all(rate, n_spikes) ==
  <<[multiplicity |-> n_spikes, mean |-> poisson_mean(rate)]>>

\* event_hook( e ) with the draw n_spikes: the events handed to the receiver.
event_hook(rate, n_spikes) ==
  IF n_spikes > 0
  THEN <<[multiplicity |-> n_spikes, mean |-> poisson_mean(rate)]>>
  ELSE <<>>

\* No event is sent at a step.
no_event == [sent |-> <<>>, param |-> <<>>, drawn |-> <<>>, handled |-> <<>>]

\* kernel().event_delivery_manager.send( *this, se, offs ): the event is
\* delivered at once, event_hook runs before send returns, with B_.rate_ as
\* update has just left it.  The event sent, the mean and the draw of
\* event_hook, and the events handed to the receiver.
send(rate, offs, n_spikes) ==
  [sent |-> <<offs>>,
   param |-> <<poisson_mean(rate)>>,
   drawn |-> <<n_spikes>>,
   handled |-> event_hook(rate, n_spikes)]

\* One pass of the for loop of update, at offset offs of the slice that
\* starts at step t0.  b holds B_.idx_, B_.rate_, whether a read went beyond
\* rate_values_, and the record of the steps processed so far: for each step
\* its offset and time, B_.idx_ before the look-ahead, whether the rate was
\* set, B_.rate_ after the look-ahead, whether the device was active, the
\* offsets of the events sent, and for each event sent the mean and the draw
\* of event_hook and the events handed to the receiver.
update_step(p, b, t0, offs, is_active, n_spikes, junk) ==
  LET curr_time == t0 + offs
      hit == rate_changes(p, b.idx, curr_time)
      rate == IF hit THEN read_rate_value(p, b.idx, junk) \div 1000 ELSE b.rate
      idx == IF hit THEN b.idx + 1 ELSE b.idx
      se == IF create_spikes(rate, is_active) THEN send(rate, offs, n_spikes) ELSE no_event
  IN  [idx |-> idx,
       rate |-> rate,
       oob |-> b.oob \/ (hit /\ b.idx + 1 > Len(p.rate_values)),
       steps |-> Append(b.steps,
                   [offs |-> offs, time |-> curr_time, idx |-> b.idx, hit |-> hit,
                    rate |-> rate, active |-> is_active,
                    sent |-> se.sent, param |-> se.param,
                    drawn |-> se.drawn, handled |-> se.handled])]

RECURSIVE update_loop(_, _, _, _, _, _, _, _)
update_loop(p, b, t0, offs, to, active, draws, junk) ==
  IF offs >= to
  THEN b
  ELSE update_loop(p, update_step(p, b, t0, offs, active[offs], draws[offs], junk[offs]),
                   t0, offs + 1, to, active, draws, junk)

\* update( origin, from, to ) past its assertions.
update(p, idx, rate, t0, from, to, active, draws, junk) ==
  LET first == t0 + from
      b == [idx |-> skip_past(p, idx, first), rate |-> rate, oob |-> FALSE, steps |-> <<>>]
  IN  update_loop(p, b, t0, from, to, active, draws, junk)

(***************************************************************************)
(* set_data_from_stimulation_backend                                       *)
(***************************************************************************)
\* The rates of the pairs read one element too early, where the times are.
pair_rates_shifted(u) == [n \in 1 .. Len(u) \div 2 |-> u[2 * n - 1]]

\* The times and rates of the pairs of a flat sequence of even length.
pair_times(u) == [n \in 1 .. Len(u) \div 2 |-> u[2 * n - 1]]
pair_rates(u) == [n \in 1 .. Len(u) \div 2 |-> u[2 * n]]

\* set_data_from_stimulation_backend that works on P_ itself, not on a copy.
set_data_from_stimulation_backend_in_place(p, idx, rate_time_update, now_ms, junk) ==
  IF rate_time_update = <<>>
  THEN [err |-> "none", P |-> p, idx |-> idx, oob |-> FALSE]
  ELSE IF Len(rate_time_update) % 2 # 0
  THEN [err |-> "OddPairCount", P |-> p, idx |-> idx, oob |-> FALSE]
  ELSE LET n_spikes == Len(p.rate_times)
           times_ms == [n \in 1 .. n_spikes |-> get_ms(p.rate_times[n])]
                         \o pair_times(rate_time_update)
           rate_values == [n \in 1 .. n_spikes |-> read_rate_value(p, n - 1, junk[n])]
                            \o pair_rates(rate_time_update)
           d == Dict(TRUE, times_ms, TRUE, rate_values, FALSE, FALSE)
           r == Parameters_set(p, idx, d, now_ms)
       IN  [err |-> r.err, P |-> r.P, idx |-> r.idx, oob |-> Len(p.rate_values) < n_spikes]

\* set_data_from_stimulation_backend whose first loop runs over nothing: only
\* the new pairs are handed to set.
set_data_from_stimulation_backend_new_only(p, idx, rate_time_update, now_ms, junk) ==
  IF rate_time_update = <<>>
  THEN [err |-> "none", P |-> p, idx |-> idx, oob |-> FALSE]
  ELSE IF Len(rate_time_update) % 2 # 0
  THEN [err |-> "OddPairCount", P |-> p, idx |-> idx, oob |-> FALSE]
  ELSE LET d == Dict(TRUE, pair_times(rate_time_update),
                     TRUE, pair_rates(rate_time_update), FALSE, FALSE)
           r == Parameters_set(p, idx, d, now_ms)
       IN  [err |-> r.err,
            P |-> IF r.err = "none" THEN r.P ELSE p,
            idx |-> r.idx,
            oob |-> FALSE]

\* set_data_from_stimulation_backend( rate_time_update ) on the parameters p
\* with B_.idx_ = idx: the error thrown, P_ and B_.idx_ afterwards, and
\* whether P_.rate_values_ was read beyond its end.
set_data_from_stimulation_backend(p, idx, rate_time_update, now_ms, junk) ==
  IF rate_time_update = <<>>
  THEN [err |-> "none", P |-> p, idx |-> idx, oob |-> FALSE]
  ELSE IF Len(rate_time_update) % 2 # 0
  THEN [err |-> "OddPairCount", P |-> p, idx |-> idx, oob |-> FALSE]
  ELSE LET n_spikes == Len(p.rate_times)
           times_ms == [n \in 1 .. n_spikes |-> get_ms(p.rate_times[n])]
                         \o pair_times(rate_time_update)
           rate_values == [n \in 1 .. n_spikes |-> read_rate_value(p, n - 1, junk[n])]
                            \o pair_rates(rate_time_update)
           d == Dict(TRUE, times_ms, TRUE, rate_values, FALSE, FALSE)
           r == Parameters_set(p, idx, d, now_ms)
       IN  [err |-> r.err,
            P |-> IF r.err = "none" THEN r.P ELSE p,
            idx |-> r.idx,
            oob |-> Len(p.rate_values) < n_spikes]

(***************************************************************************)
(* The generator and the kernel that drives it.                            *)
(***************************************************************************)
VARIABLES
  P_,         \* the parameters: rate_times_, rate_values_, allow_offgrid_times_
  B_idx,      \* B_.idx_, the index of the next rate breakpoint
  B_rate,     \* B_.rate_, the current rate in spikes/ms
  origin,     \* the first step of the current slice
  from_step,  \* the offset in the slice up to which the simulation has run
  fault,      \* "none", "assert" (an assertion of update failed), or "oob"
              \* (rate_values_ was read beyond its end)
  last,       \* the last call: its name, the kind of its arguments, its error,
              \* and the pairs a successful set_data_from_stimulation_backend got
  steps       \* the steps processed by the last call, if it was update

vars == <<P_, B_idx, B_rate, origin, from_step, fault, last, steps>>

\* What a sequence handed to set_data_from_stimulation_backend holds.
kind_of_update(u) ==
  IF u = <<>> THEN "empty" ELSE IF Len(u) % 2 = 0 THEN "pairs" ELSE "odd"

\* What a dictionary handed to set holds.
kind_of(d) ==
  IF d.has_times /\ d.has_rates
  THEN IF d.times = <<>> THEN "empty_times"
       ELSE IF Len(d.times) # Len(d.rates) THEN "mismatch"
       ELSE "arrays"
  ELSE IF d.has_times THEN "times_only"
  ELSE IF d.has_rates THEN "rates_only"
  ELSE IF d.has_flag THEN "flag_only"
  ELSE "nothing"

Call(op, err, kind, upd) == [op |-> op, err |-> err, kind |-> kind, upd |-> upd]

\* kernel().simulation_manager.get_time(), in steps and in the unit of raw times.
now_steps == origin + from_step
now_ms == get_ms(Time_step(now_steps))

Init ==
  /\ P_ = Parameters_default
  /\ B_idx = 0
  /\ B_rate = 0
  /\ origin = 0
  /\ from_step = 0
  /\ fault = "none"
  /\ last = Call("init", "none", "", <<>>)
  /\ steps = <<>>

TimesGiven == {<<FALSE, <<>>>>} \cup {<<TRUE, t>> : t \in TimeArrays}
RatesGiven == {<<FALSE, <<>>>>} \cup {<<TRUE, r>> : r \in RateArrays}
FlagGiven == {<<FALSE, FALSE>>, <<TRUE, FALSE>>, <<TRUE, TRUE>>}

\* set_status( d ): set works on a temporary copy of P_, which replaces P_
\* only if set throws nothing.
set_status(d) ==
  \E r \in {Parameters_set(P_, B_idx, d, now_ms)} :
  /\ P_' = IF r.err = "none" THEN r.P ELSE P_
  /\ B_idx' = r.idx
  /\ last' = Call("set", r.err, kind_of(d), <<>>)
  /\ steps' = <<>>
  /\ UNCHANGED <<B_rate, origin, from_step, fault>>

SetStatus ==
  /\ fault = "none"
  /\ \E t \in TimesGiven, r \in RatesGiven, f \in FlagGiven :
       set_status(Dict(t[1], t[2], r[1], r[2], f[1], f[2]))

\* The flat sequences time, rate, time, rate, ... of at most n elements.
RECURSIVE FlatUpTo(_)
FlatUpTo(n) ==
  IF n = 0 THEN {<<>>}
  ELSE LET shorter == FlatUpTo(n - 1)
           longest == {q \in shorter : Len(q) = n - 1}
       IN  shorter \cup {Append(s, x) : s \in longest,
                                        x \in IF n % 2 = 1 THEN RawTimes ELSE Rates}

RateTimeUpdates == FlatUpTo(2 * MaxPairs)

\* Whether set_data_from_stimulation_backend reads P_.rate_values_ beyond its end.
reads_beyond(rate_time_update) ==
  /\ rate_time_update # <<>>
  /\ Len(rate_time_update) % 2 = 0
  /\ Len(P_.rate_values) < Len(P_.rate_times)

stimulation_backend(rate_time_update, junk) ==
  LET r == set_data_from_stimulation_backend(P_, B_idx, rate_time_update, now_ms, junk) IN
  /\ P_' = r.P
  /\ B_idx' = r.idx
  /\ fault' = IF r.oob THEN "oob" ELSE "none"
  /\ last' = Call("merge", r.err, kind_of_update(rate_time_update),
                  IF r.err = "none" THEN rate_time_update ELSE <<>>)
  /\ steps' = <<>>
  /\ UNCHANGED <<B_rate, origin, from_step>>

\* The stimulation backend delivers data; every stored rate it reads exists.
SetData ==
  /\ fault = "none"
  /\ \E u \in RateTimeUpdates :
       /\ ~ reads_beyond(u)
       /\ stimulation_backend(u, [n \in 1 .. Len(P_.rate_times) |-> 0])

\* The stimulation backend delivers data and the stored rates are fewer than
\* the stored times: the missing rates are read from beyond the vector.
SetDataBeyond ==
  /\ fault = "none"
  /\ \E u \in RateTimeUpdates :
       /\ reads_beyond(u)
       /\ \E junk \in [1 .. Len(P_.rate_times) -> Rates] :
            stimulation_backend(u, junk)

\* The simulation has run up to offset to of the current slice.
advance(to) ==
  IF to = MinDelay
  THEN origin' = origin + MinDelay /\ from_step' = 0
  ELSE origin' = origin /\ from_step' = to

Blocks == {to \in from_step + 1 .. MinDelay : origin + to <= MaxNow}

run_update(to, active, draws, junk) ==
  LET b == update(P_, B_idx, B_rate, origin, from_step, to, active, draws, junk) IN
  /\ B_idx' = b.idx
  /\ B_rate' = b.rate
  /\ steps' = b.steps
  /\ fault' = IF b.oob THEN "oob" ELSE "none"
  /\ last' = Call("update", "none", "", <<>>)
  /\ advance(to)
  /\ UNCHANGED P_

sizes_agree == Len(P_.rate_times) = Len(P_.rate_values)

\* update( origin, from, to ) for the next block of steps.
Update ==
  /\ fault = "none"
  /\ sizes_agree
  /\ \E to \in Blocks :
       \E active \in [from_step .. to - 1 -> BOOLEAN],
          draws \in [from_step .. to - 1 -> 0 .. MaxDraw] :
         run_update(to, active, draws, [s \in from_step .. to - 1 |-> 0])

\* update with its assertions compiled in, called while rate_times_ and
\* rate_values_ differ in size: the assertion fails and the process aborts.
UpdateAsserts ==
  /\ fault = "none"
  /\ ~ sizes_agree
  /\ Blocks # {}
  /\ fault' = "assert"
  /\ last' = Call("update", "ConsistencyViolation", "", <<>>)
  /\ steps' = <<>>
  /\ UNCHANGED <<P_, B_idx, B_rate, origin, from_step>>

\* update with its assertions compiled out (NDEBUG), called while
\* rate_times_ and rate_values_ differ in size.
UpdateUnchecked ==
  /\ fault = "none"
  /\ ~ sizes_agree
  /\ \E to \in Blocks :
       \E active \in [from_step .. to - 1 -> BOOLEAN],
          draws \in [from_step .. to - 1 -> 0 .. MaxDraw],
          junk \in [from_step .. to - 1 -> Rates] :
         run_update(to, active, draws, junk)

\* The node is frozen: the kernel runs a block of steps without calling update.
Frozen ==
  /\ fault = "none"
  /\ \E to \in Blocks : advance(to)
  /\ last' = Call("frozen", "none", "", <<>>)
  /\ steps' = <<>>
  /\ UNCHANGED <<P_, B_idx, B_rate, fault>>

Next ==
  \/ SetStatus
  \/ SetData
  \/ SetDataBeyond
  \/ Update
  \/ UpdateAsserts
  \/ UpdateUnchecked
  \/ Frozen

Spec == Init /\ [][Next]_vars

(***************************************************************************)
(* Properties                                                              *)
(***************************************************************************)
\* The block of steps [from_step, block_end') processed by the step to the
\* next state.
block_end == IF from_step' = 0 THEN MinDelay ELSE from_step'

\* The stored times are strictly increasing.
strictly_increasing(times) ==
  \A i \in 1 .. Len(times) - 1 : times[i].tics < times[i + 1].tics

\* C1. Atomic replace: a call of set that fails with a validation error leaves
\* the stored times, the stored rates, the off-grid flag and the cursor as
\* they were before the call.
C1_AtomicReplace ==
  [][(last'.op = "set" /\ last'.err # "none") => (P_' = P_ /\ B_idx' = B_idx)]_vars

\* A call of set has failed on a later element, after the first was accepted,
\* while a schedule was stored and the cursor had advanced.
C1_Witness ==
  /\ last.op = "set"
  /\ last.err = "NonMonotonic"
  /\ P_.rate_times # <<>>
  /\ B_idx > 0

\* The times the pairs of a flat sequence are stored at.
stored_times(u) ==
  [n \in 1 .. Len(u) \div 2 |->
     IF u[2 * n - 1] % TicsPerStep = 0 THEN Time_ms(u[2 * n - 1])
     ELSE Time_ms_stamp(u[2 * n - 1])]

\* The step to the next state turns the stored schedule into the old
\* breakpoints followed by the pairs of u: the times are the old times and the
\* aligned new times, the rates are the rates of the old times and the new
\* rates.
merged(u) ==
  IF u = <<>>
  THEN P_' = P_
  ELSE /\ P_'.rate_times = P_.rate_times \o stored_times(u)
       /\ Len(P_'.rate_values) = Len(P_'.rate_times)
       /\ \A i \in 1 .. Len(P_.rate_times) :
            i <= Len(P_.rate_values) => P_'.rate_values[i] = P_.rate_values[i]
       /\ \A n \in 1 .. Len(u) \div 2 :
            P_'.rate_values[Len(P_.rate_times) + n] = u[2 * n]
       /\ P_'.allow_offgrid_times = P_.allow_offgrid_times

\* C2, as claimed. merge_and_apply is all-or-nothing: for every input, either
\* the call succeeds, the stored schedule becomes the old breakpoints followed
\* by all new pairs and the cursor is 0, or the call fails and times, rates,
\* flag and cursor are as before.
C2_MergeResetsCursor ==
  [][last'.op = "merge" =>
       \/ /\ last'.err = "none"
          /\ merged(last'.upd)
          /\ B_idx' = 0
       \/ /\ last'.err # "none"
          /\ P_' = P_
          /\ B_idx' = B_idx]_vars

\* C2, amended. An empty input succeeds and changes nothing, the cursor
\* included.  For a non-empty input, either the call succeeds, the stored
\* schedule becomes the old breakpoints followed by all new pairs and the
\* cursor is 0, or the call fails (with OddPairCount if the length is odd)
\* and times, rates, flag and cursor are as before.
C2_MergeAllOrNothing ==
  [][last'.op = "merge" =>
       /\ last'.kind = "odd" => last'.err = "OddPairCount"
       /\ last'.kind = "empty" => (last'.err = "none" /\ P_' = P_ /\ B_idx' = B_idx)
       /\ last'.kind # "empty" =>
            \/ /\ last'.err = "none"
               /\ merged(last'.upd)
               /\ B_idx' = 0
            \/ /\ last'.err # "none"
               /\ P_' = P_
               /\ B_idx' = B_idx]_vars

\* A pair has been appended to a stored schedule.
C2_Witness ==
  /\ last.op = "merge"
  /\ last.kind = "pairs"
  /\ last.err = "none"
  /\ Len(P_.rate_times) > Len(last.upd) \div 2

\* C3. The stored times and the stored rates have the same length, the
\* assertion of update never fails and no rate is read beyond the rate list.
C3_SizesAgree ==
  /\ Len(P_.rate_times) = Len(P_.rate_values)
  /\ fault = "none"

\* C4. A call of set whose times are present and empty does not fail and
\* leaves the stored times, the stored rates and the cursor as they were.
C4_EmptyTimesNoOp ==
  [][(last'.op = "set" /\ last'.kind = "empty_times") =>
       /\ last'.err = "none"
       /\ P_'.rate_times = P_.rate_times
       /\ P_'.rate_values = P_.rate_values
       /\ B_idx' = B_idx]_vars

\* C5. Monotonicity: in every reachable state the stored times are strictly
\* increasing, in the order in which they were given.
C5_Monotonic == strictly_increasing(P_.rate_times)

\* A schedule of two breakpoints is stored under the off-grid policy, and a
\* schedule of two breakpoints has been rejected as not increasing.
C5_Witness ==
  /\ Len(P_.rate_times) >= 2
  /\ P_.allow_offgrid_times
  /\ last.op = "set"
  /\ last.err = "NonMonotonic"

\* The breakpoints of the stored schedule that lie at step k.
breakpoints_at(k) == {i \in 1 .. Len(P_.rate_times) : get_steps(P_.rate_times[i]) = k}

\* C6. Look-ahead: while a breakpoint lies ahead, update runs; at the step
\* before a breakpoint (k, r), CurrentRate is r / 1000 when the emission is
\* decided; at a step that is not the step before a breakpoint it is what it
\* was at the step before.
C6_LookAhead ==
  [][last'.op = "update" =>
       /\ (\E i \in 1 .. Len(P_.rate_times) : get_steps(P_.rate_times[i]) > now_steps)
            => last'.err = "none"
       /\ \A j \in 1 .. Len(steps') :
            LET due == breakpoints_at(steps'[j].time + 1)
                before == IF j = 1 THEN B_rate ELSE steps'[j - 1].rate
            IN  /\ \A i \in due :
                     /\ i <= Len(P_.rate_values)
                     /\ steps'[j].rate = P_.rate_values[i] \div 1000
                /\ due = {} => steps'[j].rate = before]_vars

\* C7. Emission decision: update visits the steps of its block once each, in
\* order; at the step at offset s it requests one decision, tagged s, if after
\* the look-ahead CurrentRate > 0 and the device is active, and none otherwise.
C7_EmissionDecision ==
  [][(last'.op = "update" /\ last'.err = "none") =>
       /\ Len(steps') = block_end - from_step
       /\ \A j \in 1 .. Len(steps') :
            /\ steps'[j].offs = from_step + j - 1
            /\ steps'[j].time = origin + steps'[j].offs
            /\ steps'[j].sent =
                 IF steps'[j].rate > 0 /\ steps'[j].active
                 THEN <<steps'[j].offs>> ELSE <<>>]_vars

\* update has requested a decision at one step and, at an active step with
\* CurrentRate = 0, none.
C7_Witness ==
  /\ last.op = "update"
  /\ Len(steps) = 2
  /\ steps[1].rate = 0 /\ steps[1].active /\ steps[1].sent = <<>>
  /\ steps[2].sent = <<1>>

\* C8. Multiplicity floor: every event handed to the receiver carries the
\* multiplicity drawn, which is at least 1; a draw of 0 hands over nothing.
C8_MultiplicityFloor ==
  \A j \in 1 .. Len(steps) :
    /\ \A k \in 1 .. Len(steps[j].handled) :
         /\ steps[j].handled[k].multiplicity >= 1
         /\ steps[j].handled[k].multiplicity = steps[j].drawn[1]
    /\ steps[j].drawn = <<0>> => steps[j].handled = <<>>
    /\ steps[j].sent = <<>> => steps[j].handled = <<>>

\* One candidate has been suppressed by a draw of 0 and the next forwarded.
C8_Witness ==
  /\ Len(steps) = 2
  /\ steps[1].drawn = <<0>>
  /\ steps[2].handled # <<>>

\* The last call replaced or extended the schedule.
schedule_accepted ==
  /\ last.err = "none"
  /\ \/ last.op = "set" /\ last.kind = "arrays"
     \/ last.op = "merge" /\ last.kind = "pairs"

\* C9. Future-only: right after a successful set or merge that replaced the
\* schedule, every stored time is strictly later than the simulation time.
C9_FutureOnly ==
  schedule_accepted => \A i \in 1 .. Len(P_.rate_times) : get_ms(P_.rate_times[i]) > now_ms

\* A schedule has been accepted after the simulation has advanced.
C9_Witness ==
  /\ schedule_accepted
  /\ now_steps > 0
  /\ P_.rate_times # <<>>

\* C10. Grid alignment: every stored time is a multiple of the step; a time
\* given off the grid is accepted only under allow_offgrid_times, and is then
\* stored as the smallest grid time not before it; a time given on the grid
\* is stored unchanged.
C10_GridAlignment ==
  /\ \A i \in 1 .. Len(P_.rate_times) : P_.rate_times[i].tics % TicsPerStep = 0
  /\ (last.op = "merge" /\ last.kind = "pairs" /\ last.err = "none") =>
       LET n_new == Len(last.upd) \div 2
           n_old == Len(P_.rate_times) - n_new
       IN  \A n \in 1 .. n_new :
             LET raw == last.upd[2 * n - 1]
                 stored == get_ms(P_.rate_times[n_old + n])
             IN  /\ stored >= raw
                 /\ stored - raw < TicsPerStep
                 /\ raw % TicsPerStep # 0 => P_.allow_offgrid_times
                 /\ raw % TicsPerStep = 0 => stored = raw

\* A time given off the grid has been stored.
C10_Witness ==
  /\ last.op = "merge" /\ last.kind = "pairs" /\ last.err = "none"
  /\ last.upd[1] % TicsPerStep # 0

\* The dictionaries without rate times that ask for the other value of the
\* off-grid flag.
flag_switches ==
  {Dict(FALSE, <<>>, r[1], r[2], TRUE, ~ P_.allow_offgrid_times) : r \in RatesGiven}

\* C11. Off-grid flag lock: across a call of set the off-grid flag changes
\* only if the schedule was empty before the call or the call replaces the
\* schedule with a new times array; a call that asks for the other flag value
\* without a times array while the stored schedule is not empty fails
\* OffGridFlagLocked and changes nothing.
C11_FlagLock ==
  [][last'.op = "set" =>
       /\ P_'.allow_offgrid_times # P_.allow_offgrid_times =>
            \/ P_.rate_times = <<>>
            \/ last'.kind = "arrays" /\ last'.err = "none"
       /\ last'.err = "OffGridFlagLocked" => (P_' = P_ /\ B_idx' = B_idx)
       /\ P_.rate_times # <<>> =>
            \A d \in flag_switches :
              Parameters_set(P_, B_idx, d, now_ms).err = "OffGridFlagLocked"]_vars

\* C12. Cursor bounds: in every reachable state 0 <= B_.idx_ <= the number of
\* stored rate times, also right after the schedule was replaced by a
\* shorter one.
C12_CursorBounds == B_idx >= 0 /\ B_idx <= Len(P_.rate_times)

\* A schedule of one breakpoint has replaced, at step 2, a schedule in which
\* the cursor had advanced: the new schedule is no longer than the old cursor.
C12_Witness ==
  /\ last.op = "set" /\ last.kind = "arrays" /\ last.err = "none"
  /\ Len(P_.rate_times) = 1
  /\ B_rate # 0
  /\ now_steps = 2

\* The last call was a configuration call that replaced the schedule or
\* appended to it.
schedule_replaced(call) ==
  /\ call.err = "none"
  /\ \/ call.op = "set" /\ call.kind = "arrays"
     \/ call.op = "merge" /\ call.kind = "pairs"

\* C13. Cursor progress and reset: update never decreases the cursor; a call
\* of set or merge_and_apply sets it to 0 if the call replaces the schedule
\* or appends to it, and leaves it unchanged otherwise (a failing call, a set
\* without times and rates, a set with empty times, a merge of nothing).
C13_CursorProgress ==
  [][/\ last'.op = "update" => B_idx' >= B_idx
     /\ last'.op \in {"set", "merge"} =>
          B_idx' = IF schedule_replaced(last') THEN 0 ELSE B_idx
     /\ last'.op = "frozen" => B_idx' = B_idx]_vars

\* A set with empty times has succeeded and left the cursor where update had
\* moved it.
C13_Witness ==
  /\ last.op = "set" /\ last.kind = "empty_times" /\ last.err = "none"
  /\ B_idx > 0

\* A call of set left the schedule and the cursor as they were.
schedule_kept ==
  /\ P_'.rate_times = P_.rate_times
  /\ P_'.rate_values = P_.rate_values
  /\ B_idx' = B_idx

\* C14, as claimed. Pairing symmetry: a call of set with times and no rates,
\* or with rates and no times, fails AsymmetricUpdate; a call with neither
\* does not fail and leaves the schedule and the cursor unchanged; a call with
\* non-empty times and rates of another length fails SizeMismatch.
C14_PairingSymmetry ==
  [][last'.op = "set" =>
       /\ last'.kind \in {"times_only", "rates_only"} => last'.err = "AsymmetricUpdate"
       /\ last'.kind \in {"flag_only", "nothing"} => (last'.err = "none" /\ schedule_kept)
       /\ last'.kind = "mismatch" => last'.err = "SizeMismatch"]_vars

\* The dictionaries without rate times.
without_times ==
  {Dict(FALSE, <<>>, r[1], r[2], f[1], f[2]) : r \in RatesGiven, f \in FlagGiven}

\* The dictionary d asks for the other value of the off-grid flag, brings no
\* rate times, and the stored schedule is not empty.
asks_locked_flag(d) ==
  /\ d.has_flag /\ d.flag # P_.allow_offgrid_times
  /\ ~ d.has_times
  /\ P_.rate_times # <<>>

\* C14, amended. A call of set without times that asks for the other value
\* of the off-grid flag while the stored schedule is not empty fails
\* OffGridFlagLocked, whether or not it brings rates.  Any other call with
\* rates and no times, and every call with times and no rates, fails
\* AsymmetricUpdate; any other call with neither does not fail.  A call with
\* neither leaves the schedule and the cursor unchanged; a call with non-empty
\* times and rates of another length fails SizeMismatch.
C14_PairingUnlessLocked ==
  /\ [](\A d \in without_times :
          Parameters_set(P_, B_idx, d, now_ms).err =
            IF asks_locked_flag(d) THEN "OffGridFlagLocked"
            ELSE IF d.has_rates THEN "AsymmetricUpdate"
            ELSE "none")
  /\ [][last'.op = "set" =>
          /\ last'.kind = "times_only" => last'.err = "AsymmetricUpdate"
          /\ last'.kind = "rates_only" =>
               last'.err \in {"AsymmetricUpdate", "OffGridFlagLocked"}
          /\ last'.kind \in {"flag_only", "nothing"} =>
               (last'.err \in {"none", "OffGridFlagLocked"} /\ schedule_kept)
          /\ last'.kind = "mismatch" => last'.err = "SizeMismatch"]_vars

\* A call of set with rates, no times and the other flag value has failed
\* with OffGridFlagLocked.
C14_Witness ==
  /\ last.op = "set" /\ last.kind = "rates_only"
  /\ last.err = "OffGridFlagLocked"

\* C15. Every rate of the stored schedule is non-negative: no breakpoint with
\* a negative rate is part of an accepted schedule.
C15_NonNegativeRates ==
  \A i \in 1 .. Len(P_.rate_values) :
    i <= Len(P_.rate_times) => P_.rate_values[i] >= 0

\* C16. CurrentRate is changed only by the look-ahead of update, at a step s
\* where the breakpoint under the cursor has time s + 1: set and
\* merge_and_apply, failing or not, a block the node is frozen in, a failed
\* update and the catch-up of update leave B_.rate_ as it was, and what update
\* leaves is the rate of its last step.
C16_RateFrame ==
  [][/\ last'.op \in {"set", "merge", "frozen"} => B_rate' = B_rate
     /\ (last'.op = "update" /\ last'.err # "none") => B_rate' = B_rate
     /\ (last'.op = "update" /\ last'.err = "none") =>
          /\ B_rate' = steps'[Len(steps')].rate
          /\ \A j \in 1 .. Len(steps') :
               LET before == IF j = 1 THEN B_rate ELSE steps'[j - 1].rate
                   cursor == steps'[j].idx
               IN  steps'[j].rate # before =>
                     /\ cursor < Len(P_.rate_times)
                     /\ get_steps(P_.rate_times[cursor + 1]) = steps'[j].time + 1]_vars

\* A call of set has replaced the schedule while CurrentRate was 1: the rate
\* is kept, the first new breakpoint has another rate.
C16_Witness ==
  /\ last.op = "set" /\ last.kind = "arrays" /\ last.err = "none"
  /\ B_rate = 1
  /\ B_idx = 0
  /\ P_.rate_values[1] = -1000

\* C17. Catch-up: update for a block that starts at step first = origin + from
\* begins by moving the cursor past every breakpoint of time <= first, and
\* past no other; after that the cursor is at the end or at a breakpoint of
\* time > first, and a second catch-up for the same first moves nothing.  A
\* breakpoint skipped this way never sets CurrentRate; the breakpoints that
\* set CurrentRate in one call are distinct, lie at or after the cursor the
\* call started with, and lie before the cursor the call leaves.
C17_CatchUp ==
  [][(last'.op = "update" /\ last'.err = "none") =>
       LET first == origin + from_step
           caught_up == steps'[1].idx
           size == Len(P_.rate_times)
       IN  /\ B_idx <= caught_up /\ caught_up <= size
           /\ \A i \in B_idx + 1 .. caught_up : get_steps(P_.rate_times[i]) <= first
           /\ caught_up < size => get_steps(P_.rate_times[caught_up + 1]) > first
           /\ skip_past(P_, caught_up, first) = caught_up
           /\ \A j \in 1 .. Len(steps') :
                LET before == IF j = 1 THEN B_rate ELSE steps'[j - 1].rate
                    after == IF j = Len(steps') THEN B_idx' ELSE steps'[j + 1].idx
                IN  /\ steps'[j].idx >= caught_up
                    /\ steps'[j].rate # before => steps'[j].hit
                    /\ after = steps'[j].idx + (IF steps'[j].hit THEN 1 ELSE 0)]_vars

\* update has skipped every breakpoint of a schedule whose first rate is
\* positive: no breakpoint has ever set CurrentRate, and an active step
\* requested no decision.
C17_Witness ==
  /\ last.op = "update" /\ last.err = "none"
  /\ P_.rate_times # <<>>
  /\ steps[1].idx = Len(P_.rate_times)
  /\ P_.rate_values # <<>> /\ P_.rate_values[1] = 1000
  /\ B_rate = 0
  /\ steps[1].active /\ steps[1].sent = <<>>

\* The smallest grid time not before the raw time t.
aligned(t) == [tics |-> CHOOSE g \in t .. t + TicsPerStep - 1 : g % TicsPerStep = 0]

\* C18. Merge keeps the old schedule as a prefix: after a successful
\* merge_and_apply of pairs, the stored schedule is the previous breakpoints,
\* in their order and with their times and rates, followed by the new pairs in
\* the order given, with their times aligned; the first new aligned time is
\* later than the last time stored before.
C18_MergePrefix ==
  [][(last'.op = "merge" /\ last'.kind = "pairs" /\ last'.err = "none") =>
       LET n_old == Len(P_.rate_times)
           n_new == Len(last'.upd) \div 2
       IN  /\ Len(P_'.rate_times) = n_old + n_new
           /\ Len(P_'.rate_values) = n_old + n_new
           /\ \A i \in 1 .. n_old :
                /\ P_'.rate_times[i] = P_.rate_times[i]
                /\ i <= Len(P_.rate_values) => P_'.rate_values[i] = P_.rate_values[i]
           /\ \A n \in 1 .. n_new :
                /\ P_'.rate_times[n_old + n] = aligned(last'.upd[2 * n - 1])
                /\ P_'.rate_values[n_old + n] = last'.upd[2 * n]
           /\ n_old > 0 =>
                aligned(last'.upd[1]).tics > P_.rate_times[n_old].tics]_vars

\* A pair given off the grid has been appended to a schedule of two
\* breakpoints.
C18_Witness ==
  /\ last.op = "merge" /\ last.kind = "pairs" /\ last.err = "none"
  /\ Len(P_.rate_times) = 3
  /\ last.upd[1] % TicsPerStep # 0

\* A stored breakpoint does not lie after the current simulation time.
stored_not_in_future ==
  \E i \in 1 .. Len(P_.rate_times) : get_ms(P_.rate_times[i]) <= now_ms

\* C19, as claimed. While a stored breakpoint does not lie after the current
\* simulation time, every merge_and_apply of a non-empty input fails
\* NotInFuture and leaves the schedule and the cursor unchanged.
C19_MergeRevalidates ==
  [][(last'.op = "merge" /\ last'.kind # "empty" /\ stored_not_in_future) =>
       /\ last'.err = "NotInFuture"
       /\ P_' = P_
       /\ B_idx' = B_idx]_vars

\* C19, amended. While a stored breakpoint does not lie after the current
\* simulation time, every merge_and_apply of a non-empty input of even length
\* fails NotInFuture, and one of odd length fails OddPairCount; both leave the
\* schedule and the cursor unchanged.
C19_MergeOfPairsRevalidates ==
  [][(last'.op = "merge" /\ last'.kind # "empty" /\ stored_not_in_future) =>
       /\ last'.err = IF last'.kind = "odd" THEN "OddPairCount" ELSE "NotInFuture"
       /\ P_' = P_
       /\ B_idx' = B_idx]_vars

\* A merge of a pair has failed with NotInFuture on a schedule whose last
\* breakpoint the cursor has passed.
C19_Witness ==
  /\ last.op = "merge" /\ last.kind = "pairs" /\ last.err = "NotInFuture"
  /\ stored_not_in_future
  /\ B_idx = Len(P_.rate_times)
  /\ fault = "none"

\* C20. Two-phase sampling: a draw is made only to resolve a candidate that
\* the decision of a step requested, one draw for each; at a step where
\* CurrentRate <= 0 or the device is not active no draw is made; the mean of
\* the draw that resolves the candidate of a step is r * h, with r the value
\* of CurrentRate at the decision of that step and h the duration of a step.
C20_TwoPhase ==
  \A j \in 1 .. Len(steps) :
    /\ Len(steps[j].drawn) = Len(steps[j].sent)
    /\ Len(steps[j].param) = Len(steps[j].drawn)
    /\ (steps[j].rate <= 0 \/ ~ steps[j].active) => steps[j].drawn = <<>>
    /\ \A k \in 1 .. Len(steps[j].param) :
         steps[j].param[k] = steps[j].rate * TicsPerStep

\* In one block a candidate was resolved by a draw at rate 1, and the next
\* step, active at the new rate -1, made no draw.
C20_Witness ==
  /\ Len(steps) = 2
  /\ steps[1].rate = 1 /\ steps[1].drawn = <<0>>
  /\ steps[2].rate = -1 /\ steps[2].active /\ steps[2].drawn = <<>>

====
